---- MODULE Spec2Model ----
(***************************************************************************)
(* gobarber: AppointmentController (store, delete) over the appointment   *)
(* table, the notification collection and the mail queue.                  *)
(*                                                                         *)
(* An instant is a number of minutes; the model uses the instants at the   *)
(* minute marks of MinuteMarks.  A request                                 *)
(* handler is an async function: every `await` of a storage call is a      *)
(* point where another handler may run, so a handler is a process whose    *)
(* steps are the storage calls; the code between two awaits runs in one    *)
(* step.  A handler that answers enters "done" holding its request and     *)
(* its result; the answer is sent in the same synchronous run as the       *)
(* decision, so nothing else runs until Respond has returned it to idle.   *)
(***************************************************************************)
EXTENDS Integers, Sequences, FiniteSets

\* ---------------------------------------------------------------- bounds
MaxAppointments == 2

\* subHours(appointment.date, 2)
CancelHours == 2

\* The hours, and the minutes of an hour, at which the model has an instant:
\* the current hour, the next, and the hour whose start is CancelHours away.
Hours == {0, 1, 2}
MinuteMarks == {0, 30}

\* The requested dates, and the instants the clock passes through.
Dates == {(h * 60) + m : h \in Hours, m \in MinuteMarks}
Nows == MinuteMarks

Procs == {"h1", "h2"}
Users == {1, 2}
Providers == {1}

\* A null column / an absent value is the empty tuple, a value v is <<v>>.
Null == <<>>

\* provider_id as it arrives in the JSON body: a number or a numeric string.
ProviderIds == [t : {"num", "str"}, v : Users]

\* A body without provider_id, or with one that is no number.
BadProviderIds == {[t |-> "none", v |-> 0], [t |-> "nan", v |-> 0]}

BodyProviderIds == ProviderIds \cup BadProviderIds

\* parseISO of a missing or unparseable date: Invalid Date.
NaD == 0 - 1

BodyDates == Dates \cup {NaD}

\* The e-mail addresses of the model; the user table before the first request.
Emails == {"a", "b", "c"}
InitialEmails == <<"a", "b">>

\* request.body.email: absent, the empty string, a string that is no
\* address, or an address.
NoEmail == "undefined"
EmptyEmail == ""
BadEmail == "x"
BodyEmails == Emails \cup {NoEmail, EmptyEmail, BadEmail}

InitialUsers == [u \in Users |-> [email |-> InitialEmails[u], provider |-> u \in Providers]]

VARIABLES now, appointments, notifications, queue, pc, req, res,
          users, ulast, nlast

vars == <<now, appointments, notifications, queue, pc, req, res,
          users, ulast, nlast>>

\* The user table and the last answers of UserController and
\* NotificationController, which AppointmentController never writes.
others == <<users, ulast, nlast>>

\* ------------------------------------------------------------- date-fns
\* startOfHour of Invalid Date is Invalid Date.
startOfHour(d) == IF d = NaD THEN NaD ELSE d - (d % 60)

subHours(d, n) == d - (n * 60)

\* A comparison with Invalid Date is false.
isBefore(a, b) == a # NaD /\ b # NaD /\ a < b

\* ------------------------------------------------------------ JS / store
\* userId === provider_id: strict equality, a numeric string never equals a number.
StrictEq(userId, provider_id) == provider_id.t = "num" /\ provider_id.v = userId

\* The integer column value of provider_id (the store casts a numeric string).
ToInt(provider_id) == provider_id.v

\* lines 42-45: what the schema accepts: provider_id a number (or a numeric
\* string), date a parseable date, both present.
schemaIsValid(provider_id, date) == provider_id \in ProviderIds /\ date # NaD

\* User.findOne with an id that is undefined or no number: the query rejects.
LookupRejects(provider_id) == provider_id \in BadProviderIds

\* line 47: !schema.isValid(body): isValid returns a Promise that is not awaited;
\* the negation of an object is false, so the branch is never taken.
ValidationFails(provider_id, date) == FALSE

\* User.findOne({ where: { id: provider_id, provider: true } })
isProvider(provider_id) ==
    \E u \in 1..Len(users) : u = ToInt(provider_id) /\ users[u].provider

\* Mutant of hasAppointment: canceled appointments count too.
hasAppointmentCanceledToo(apps, provider_id, hourStart) ==
    \E i \in 1..Len(apps) :
        /\ apps[i].provider_id = ToInt(provider_id)
        /\ apps[i].date = hourStart

\* Appointment.findOne({ where: { provider_id, canceled_at: null, date: hourStart } })
hasAppointment(apps, provider_id, hourStart) ==
    \E i \in 1..Len(apps) :
        /\ apps[i].provider_id = ToInt(provider_id)
        /\ apps[i].canceled_at = Null
        /\ apps[i].date = hourStart

\* The date written by Appointment.create({ user_id, provider_id, date }).
CreatedDate(date, hourStart) == date

\* Mutant of NotificationFor: the notification goes to the client.
NotificationForClient(userId, provider_id, hourStart) ==
    [user |-> userId, content |-> <<userId, hourStart>>, read |-> FALSE]

\* lines 107-116: Notification.create({ content, user: provider_id }); the
\* content names the requester and the formatted hourStart, read defaults to false.
NotificationFor(userId, provider_id, hourStart) ==
    [user |-> ToInt(provider_id), content |-> <<userId, hourStart>>, read |-> FALSE]

\* Mutant of PastCheckDate: the past check compares the requested date itself.
PastCheckDateRaw(date, hourStart) == date

\* The instant the past check of line 80 compares with new Date().
PastCheckDate(date, hourStart) == hourStart

\* Mutant of StoreChecks: the self-booking check is left out.
StoreChecksNoSelf(userId, provider_id, date, t) ==
    IF ValidationFails(provider_id, date) THEN "MalformedRequest"
    ELSE IF LookupRejects(provider_id) THEN "Fault"
    ELSE IF ~isProvider(provider_id) THEN "NotAProvider"
    ELSE IF isBefore(PastCheckDate(date, startOfHour(date)), t) THEN "PastDateForbidden"
    ELSE "pass"

\* store, lines 47-82: the checks made before the availability lookup.
StoreChecks(userId, provider_id, date, t) ==
    IF ValidationFails(provider_id, date) THEN "MalformedRequest"
    ELSE IF LookupRejects(provider_id) THEN "Fault"
    ELSE IF ~isProvider(provider_id) THEN "NotAProvider"
    ELSE IF StrictEq(userId, provider_id) THEN "SelfBookingForbidden"
    ELSE IF isBefore(PastCheckDate(date, startOfHour(date)), t) THEN "PastDateForbidden"
    ELSE "pass"

\* Mutant of DeleteChecks: the appointment's provider may cancel it too.
DeleteChecksProviderToo(apps, id, userId, t) ==
    IF id \notin 1..Len(apps) THEN "BookingNotFound"
    ELSE IF apps[id].canceled_at # Null THEN "AlreadyCanceled"
    ELSE IF apps[id].user_id # userId /\ apps[id].provider_id # userId
         THEN "NotAuthorized"
    ELSE IF isBefore(subHours(apps[id].date, CancelHours), t) THEN "TooLateToCancel"
    ELSE "pass"

\* Mutant of CanceledAt: no instant is set.
CanceledAtUnset(t) == Null

\* line 153: appointment.canceled_at = new Date()
CanceledAt(t) == <<t>>

\* Mutant of DeleteChecks: the owner is checked before the cancellation.
DeleteChecksOwnerFirst(apps, id, userId, t) ==
    IF id \notin 1..Len(apps) THEN "BookingNotFound"
    ELSE IF apps[id].user_id # userId THEN "NotAuthorized"
    ELSE IF apps[id].canceled_at # Null THEN "AlreadyCanceled"
    ELSE IF isBefore(subHours(apps[id].date, CancelHours), t) THEN "TooLateToCancel"
    ELSE "pass"

\* delete, lines 129-151: the checks on the appointment read by findByPk.
DeleteChecks(apps, id, userId, t) ==
    IF id \notin 1..Len(apps) THEN "BookingNotFound"
    ELSE IF apps[id].canceled_at # Null THEN "AlreadyCanceled"
    ELSE IF apps[id].user_id # userId THEN "NotAuthorized"
    ELSE IF isBefore(subHours(apps[id].date, CancelHours), t) THEN "TooLateToCancel"
    ELSE "pass"

\* ------------------------------------------------------------- requests
NoProviderId == [t |-> "num", v |-> 0]

NoReq == [op |-> "none", userId |-> 0, provider_id |-> NoProviderId,
          date |-> 0, id |-> 0, canceled_at |-> Null]

StoreReq(userId, provider_id, date) ==
    [op |-> "store", userId |-> userId, provider_id |-> provider_id,
     date |-> date, id |-> 0, canceled_at |-> Null]

DeleteReq(userId, id) ==
    [op |-> "delete", userId |-> userId, provider_id |-> NoProviderId,
     date |-> 0, id |-> id, canceled_at |-> Null]

\* No answer of UserController / NotificationController yet.
NoUserAnswer == [op |-> "none", userId |-> 0, email |-> NoEmail, valid |-> FALSE,
                 result |-> "none"]

NoNotifAnswer == [op |-> "none", userId |-> 0, id |-> 0, result |-> "none", list |-> <<>>]

Answered == \E p \in Procs : pc[p] = "done"

InFlightCreates == {p \in Procs : pc[p] \in {"findOne", "create"}}

Init ==
    /\ now = 0
    /\ appointments = <<>>
    /\ notifications = <<>>
    /\ queue = <<>>
    /\ pc = [p \in Procs |-> "idle"]
    /\ req = [p \in Procs |-> NoReq]
    /\ res = [p \in Procs |-> "none"]
    /\ users = InitialUsers
    /\ ulast = NoUserAnswer
    /\ nlast = NoNotifAnswer

\* The clock.
Tick ==
    /\ ~Answered
    /\ \E t \in Nows : t > now /\ (\A u \in Nows : u > now => t <= u) /\ now' = t
    /\ UNCHANGED <<appointments, notifications, queue, pc, req, res>>
    /\ UNCHANGED others

\* ---------------------------------------------- AppointmentController.store
\* lines 42-82: validation, provider lookup, hourStart, self and past checks.
StoreBegin(p, userId, provider_id, date) ==
    /\ ~Answered
    /\ pc[p] = "idle"
    /\ Len(appointments) + Cardinality(InFlightCreates) < MaxAppointments
    /\ req' = [req EXCEPT ![p] = StoreReq(userId, provider_id, date)]
    /\ LET r == StoreChecks(userId, provider_id, date, now)
       IN  IF r = "pass"
           THEN /\ pc' = [pc EXCEPT ![p] = "findOne"]
                /\ res' = [res EXCEPT ![p] = "none"]
           ELSE /\ pc' = [pc EXCEPT ![p] = "done"]
                /\ res' = [res EXCEPT ![p] = r]
    /\ UNCHANGED <<now, appointments, notifications, queue>>
    /\ UNCHANGED others

\* lines 87-95: the availability lookup and its answer.
StoreFindOne(p) ==
    /\ ~Answered
    /\ pc[p] = "findOne"
    /\ IF req[p].date = NaD
       THEN \* the query with an Invalid Date rejects: an uncaught fault
            /\ pc' = [pc EXCEPT ![p] = "done"]
            /\ res' = [res EXCEPT ![p] = "Fault"]
       ELSE IF hasAppointment(appointments, req[p].provider_id, startOfHour(req[p].date))
       THEN /\ pc' = [pc EXCEPT ![p] = "done"]
            /\ res' = [res EXCEPT ![p] = "SlotUnavailable"]
       ELSE /\ pc' = [pc EXCEPT ![p] = "create"]
            /\ UNCHANGED res
    /\ UNCHANGED <<now, appointments, notifications, queue, req>>
    /\ UNCHANGED others

\* lines 97-101: Appointment.create.
StoreCreate(p) ==
    /\ ~Answered
    /\ pc[p] = "create"
    /\ appointments' = Append(appointments,
           [user_id |-> req[p].userId,
            provider_id |-> ToInt(req[p].provider_id),
            date |-> CreatedDate(req[p].date, startOfHour(req[p].date)),
            canceled_at |-> Null])
    /\ req' = [req EXCEPT ![p].id = Len(appointments) + 1]
    /\ pc' = [pc EXCEPT ![p] = "notify"]
    /\ UNCHANGED <<now, notifications, queue, res>>
    /\ UNCHANGED others

\* lines 106-118: User.findByPk, Notification.create, the answer.
StoreNotify(p) ==
    /\ ~Answered
    /\ pc[p] = "notify"
    /\ notifications' = Append(notifications,
           NotificationFor(req[p].userId, req[p].provider_id, startOfHour(req[p].date)))
    /\ pc' = [pc EXCEPT ![p] = "done"]
    /\ res' = [res EXCEPT ![p] = "ok"]
    /\ UNCHANGED <<now, appointments, queue, req>>
    /\ UNCHANGED others

\* lines 106-116: the user lookup or Notification.create rejects; nothing
\* catches it, the handler ends with an uncaught fault.
StoreNotifyFails(p) ==
    /\ ~Answered
    /\ pc[p] = "notify"
    /\ pc' = [pc EXCEPT ![p] = "done"]
    /\ res' = [res EXCEPT ![p] = "Fault"]
    /\ UNCHANGED <<now, appointments, notifications, queue, req>>
    /\ UNCHANGED others

\* --------------------------------------------- AppointmentController.delete
\* lines 122-153: findByPk, the four checks, appointment.canceled_at = new Date().
DeleteBegin(p, userId, id) ==
    /\ ~Answered
    /\ pc[p] = "idle"
    /\ LET r == DeleteChecks(appointments, id, userId, now)
       IN  IF r = "pass"
           THEN /\ pc' = [pc EXCEPT ![p] = "save"]
                /\ res' = [res EXCEPT ![p] = "none"]
                /\ req' = [req EXCEPT ![p] =
                              [DeleteReq(userId, id) EXCEPT !.canceled_at = CanceledAt(now)]]
           ELSE /\ pc' = [pc EXCEPT ![p] = "done"]
                /\ res' = [res EXCEPT ![p] = r]
                /\ req' = [req EXCEPT ![p] = DeleteReq(userId, id)]
    /\ UNCHANGED <<now, appointments, notifications, queue>>
    /\ UNCHANGED others

\* line 155: appointment.save() writes the changed column.
DeleteSave(p) ==
    /\ ~Answered
    /\ pc[p] = "save"
    /\ appointments' = [appointments EXCEPT ![req[p].id].canceled_at = req[p].canceled_at]
    /\ pc' = [pc EXCEPT ![p] = "enqueue"]
    /\ UNCHANGED <<now, notifications, queue, req, res>>
    /\ UNCHANGED others

\* lines 157-161: Queue.add resolves, the answer is the appointment.
DeleteEnqueue(p) ==
    /\ ~Answered
    /\ pc[p] = "enqueue"
    /\ queue' = Append(queue, req[p].id)
    /\ pc' = [pc EXCEPT ![p] = "done"]
    /\ res' = [res EXCEPT ![p] = "ok"]
    /\ UNCHANGED <<now, appointments, notifications, req>>
    /\ UNCHANGED others

\* lines 157-159: Queue.add rejects; the await is in no try block, the
\* handler ends with an uncaught fault and never reaches response.json.
DeleteEnqueueFails(p) ==
    /\ ~Answered
    /\ pc[p] = "enqueue"
    /\ pc' = [pc EXCEPT ![p] = "done"]
    /\ res' = [res EXCEPT ![p] = "Fault"]
    /\ UNCHANGED <<now, appointments, notifications, queue, req>>
    /\ UNCHANGED others

\* The answer leaves; the handler is free for the next request.
Respond(p) ==
    /\ pc[p] = "done"
    /\ pc' = [pc EXCEPT ![p] = "idle"]
    /\ req' = [req EXCEPT ![p] = NoReq]
    /\ res' = [res EXCEPT ![p] = "none"]
    /\ UNCHANGED <<now, appointments, notifications, queue>>
    /\ UNCHANGED others

DeleteIds == 1..(Len(appointments) + 1)

Step(p) ==
    \/ \E u \in Users, pid \in BodyProviderIds, d \in BodyDates : StoreBegin(p, u, pid, d)
    \/ StoreFindOne(p)
    \/ StoreCreate(p)
    \/ StoreNotify(p)
    \/ StoreNotifyFails(p)
    \/ \E u \in Users, id \in DeleteIds : DeleteBegin(p, u, id)
    \/ DeleteSave(p)
    \/ DeleteEnqueue(p)
    \/ DeleteEnqueueFails(p)
    \/ Respond(p)

\* Concurrent requests: the handlers interleave at their awaits.
Next == Tick \/ \E p \in Procs : Step(p)

Spec == Init /\ [][Next]_vars

\* One request at a time: a single handler runs each request to its answer.
SeqNext == Tick \/ Step("h1")

SeqSpec == Init /\ [][SeqNext]_vars

\* ------------------------------------------------ NotificationController
\* The collection is kept in creation order: the createdAt of a notification
\* is its position, and its id names that position.
MaxNotifications == 22

\* .limit(20)
ListLimit == 20

\* The ids of s in descending order.
SortDesc(s) ==
    [i \in 1..Cardinality(s) |->
        CHOOSE k \in s : Cardinality({j \in s : j > k}) = i - 1]

\* .limit(n)
Limit(list, n) == SubSeq(list, 1, IF Len(list) < n THEN Len(list) ELSE n)

\* Notification.find({ user }): the ids of the notifications of userId.
Find(notifs, userId) == {k \in 1..Len(notifs) : notifs[k].user = userId}

\* lines 16-20: find, sort({ createdAt: 'desc' }), limit(20).
Recent(notifs, userId) == Limit(SortDesc(Find(notifs, userId)), ListLimit)

\* User.findOne({ where: { id: request.userId, provider: true } })
checkIfUserIsProvider(userId) ==
    \E u \in 1..Len(users) : u = userId /\ users[u].provider

\* Mutant of IndexChecks: every user may list.
IndexChecksNone(userId) == "ok"

\* index, lines 6-14.
IndexChecks(userId) ==
    IF ~checkIfUserIsProvider(userId) THEN "NotAuthorized" ELSE "ok"

\* A request.params.id that is no ObjectId.
NotAnId == 0 - 1

\* findByIdAndUpdate casts the id to an ObjectId and rejects when it cannot.
CastFails(id) == id = NotAnId

\* findByIdAndUpdate(id, { read: true }): the collection afterwards.
MarkRead(notifs, id) ==
    IF id \in 1..Len(notifs)
    THEN [notifs EXCEPT ![id].read = TRUE]
    ELSE notifs

\* NotificationController.index, lines 5-23.
NotifIndex(userId) ==
    /\ nlast' = [op |-> "index", userId |-> userId, id |-> 0,
                 result |-> IndexChecks(userId),
                 list |-> IF IndexChecks(userId) = "ok"
                          THEN Recent(notifications, userId) ELSE <<>>]
    /\ UNCHANGED <<now, appointments, notifications, queue, pc, req, res, users, ulast>>

\* NotificationController.update, lines 25-33: the answer is the updated
\* document, or null when there is none; a rejection of the awaited update
\* is not caught and no answer is built.
NotifUpdate(id) ==
    /\ notifications' = IF CastFails(id) THEN notifications
                        ELSE MarkRead(notifications, id)
    /\ nlast' = [op |-> "update", userId |-> 0, id |-> id,
                 result |-> IF CastFails(id) THEN "Fault" ELSE "ok",
                 list |-> IF id \in 1..Len(notifications) THEN <<id>> ELSE <<>>]
    /\ UNCHANGED <<now, appointments, queue, pc, req, res, users, ulast>>

\* request.params.id: the two oldest notifications, the newest, an id that
\* names none, and a string that is no id.
UpdateIds == {1, 2, Len(notifications), Len(notifications) + 1, NotAnId}

\* The recipients of a collection: the oldest notification goes to first,
\* the later ones to rest, or they alternate.
Recipient(shape, k) ==
    IF shape.alt THEN (IF k % 2 = 1 THEN shape.first ELSE shape.rest)
    ELSE IF k = 1 THEN shape.first ELSE shape.rest

Shapes == [alt : BOOLEAN, first : Users, rest : Users]

\* The client of the booking behind a notification to r.
ClientOf(r) == CHOOSE u \in Users : u # r

\* n bookings asked for at 00:30 and the notifications recorded for them.
Bookings(n, shape) ==
    [k \in 1..n |-> [user_id |-> ClientOf(Recipient(shape, k)),
                     provider_id |-> Recipient(shape, k),
                     date |-> CreatedDate(30, startOfHour(30)),
                     canceled_at |-> Null]]

Collection(n, shape) ==
    [k \in 1..n |-> NotificationFor(ClientOf(Recipient(shape, k)),
                                    [t |-> "num", v |-> Recipient(shape, k)],
                                    startOfHour(30))]

\* Any provider flags, any collection of up to MaxNotifications notifications.
NotifInit ==
    /\ now = 0
    /\ queue = <<>>
    /\ pc = [p \in Procs |-> "idle"]
    /\ req = [p \in Procs |-> NoReq]
    /\ res = [p \in Procs |-> "none"]
    /\ ulast = NoUserAnswer
    /\ nlast = NoNotifAnswer
    /\ \E P \in SUBSET Users :
          users = [u \in Users |-> [email |-> InitialEmails[u], provider |-> u \in P]]
    /\ \E n \in 0..MaxNotifications, shape \in Shapes :
          /\ appointments = Bookings(n, shape)
          /\ notifications = Collection(n, shape)

NotifNext ==
    \/ \E u \in Users : NotifIndex(u)
    \/ \E id \in UpdateIds : NotifUpdate(id)

NotifSpec == NotifInit /\ [][NotifNext]_vars

\* --------------------------------------------------------- UserController
MaxUsers == 3

\* request.body of store and update, with a name and passwords of six
\* characters or more where given: password tells whether a password is
\* given, oldPassword whether none, the right one or a wrong one is given,
\* provider which flag is given, if any.
UserBodies ==
    [email : BodyEmails, password : BOOLEAN,
     oldPassword : {"none", "right", "wrong"}, provider : {"none", "yes", "no"}]

\* store reads no oldPassword.
StoreBodies == {body \in UserBodies : body.oldPassword = "none"}

\* The outcomes of the lookup of line 57 with an absent email: it rejects,
\* or it finds nobody.
Rejections(body) == IF body.email = NoEmail THEN BOOLEAN ELSE {FALSE}

\* lines 7-17: name, email and password are required, email is an address.
storeSchemaIsValid(body) ==
    body.password /\ body.email \in Emails

\* lines 37-48: no field is required but password when oldPassword is given;
\* email() accepts the empty string.
updateSchemaIsValid(body) ==
    /\ body.email \in Emails \cup {NoEmail, EmptyEmail}
    /\ body.oldPassword # "none" => body.password

\* Mutant of EmailHeld: the lookup finds nobody.
EmailHeldByNobody(us, email) == FALSE

\* User.findOne({ where: { email } }) finds a user.
EmailHeld(us, email) == \E u \in 1..Len(us) : us[u].email = email

\* The provider column written from the body; the column defaults to false.
ProviderGiven(body, old) ==
    IF body.provider = "none" THEN old ELSE body.provider = "yes"

\* store, lines 17-29.
UserStoreChecks(body) ==
    IF ~storeSchemaIsValid(body) THEN "ValidationFails"
    ELSE IF EmailHeld(users, body.email) THEN "EmailTaken"
    ELSE "pass"

\* update, lines 48-76; rejects tells whether the lookup with an absent
\* email rejects or finds nobody.
UserUpdateChecks(userId, body, rejects) ==
    IF ~updateSchemaIsValid(body) THEN "ValidationFails"
    ELSE IF body.email # users[userId].email /\ body.email = NoEmail /\ rejects
         THEN "Fault"
    ELSE IF body.email # users[userId].email /\ EmailHeld(users, body.email)
         THEN "EmailTaken"
    ELSE IF body.password /\ body.oldPassword = "none" THEN "OldPasswordRequired"
    ELSE IF body.oldPassword = "wrong" THEN "IncorrectOldPassword"
    ELSE "pass"

\* UserController.store, lines 6-34.
UserStore(body) ==
    /\ Len(users) < MaxUsers
    /\ LET r == UserStoreChecks(body)
       IN  /\ users' = IF r = "pass"
                       THEN Append(users, [email |-> body.email,
                                           provider |-> ProviderGiven(body, FALSE)])
                       ELSE users
           /\ ulast' = [op |-> "store", userId |-> 0, email |-> body.email,
                        valid |-> storeSchemaIsValid(body),
                        result |-> IF r = "pass" THEN "ok" ELSE r]
    /\ UNCHANGED <<now, appointments, notifications, queue, pc, req, res, nlast>>

\* UserController.update, lines 36-81.
UserUpdate(userId, body, rejects) ==
    /\ LET r == UserUpdateChecks(userId, body, rejects)
       IN  /\ users' = IF r = "pass"
                       THEN [users EXCEPT
                               ![userId].email =
                                   IF body.email = NoEmail THEN @ ELSE body.email,
                               ![userId].provider = ProviderGiven(body, @)]
                       ELSE users
           /\ ulast' = [op |-> "update", userId |-> userId, email |-> body.email,
                        valid |-> updateSchemaIsValid(body),
                        result |-> IF r = "pass" THEN "ok" ELSE r]
    /\ UNCHANGED <<now, appointments, notifications, queue, pc, req, res, nlast>>

UserNext ==
    \/ \E body \in StoreBodies : UserStore(body)
    \/ \E u \in 1..Len(users), body \in UserBodies :
          \E rejects \in Rejections(body) : UserUpdate(u, body, rejects)

UserSpec == Init /\ [][UserNext]_vars

\* ------------------------------------------------------------ properties
Active(i) == appointments[i].canceled_at = Null

Ids == 1..Len(appointments)

\* The step in which handler p takes a request of kind op and makes its checks.
Begins(p, op) == pc[p] = "idle" /\ pc'[p] # "idle" /\ req'[p].op = op

\* The number of jobs in the queue that carry appointment id.
Jobs(id) == Cardinality({k \in 1..Len(queue) : queue[k] = id})

\* C1: with one request at a time, no provider has two active appointments
\* whose dates fall in the same hour.
C1_SlotExclusive ==
    \A i, j \in Ids :
        (i < j /\ Active(i) /\ Active(j)
           /\ appointments[i].provider_id = appointments[j].provider_id)
        => startOfHour(appointments[i].date) # startOfHour(appointments[j].date)

\* C2: of the concurrent create requests for one provider and one hour, each
\* asking for the start of the hour, at most one gets past the availability
\* lookup and creates its appointment.
C2_OneWinner ==
    \A p, q \in Procs :
        (p # q /\ req[p].op = "store" /\ req[q].op = "store"
           /\ ToInt(req[p].provider_id) = ToInt(req[q].provider_id)
           /\ req[p].date = req[q].date
           /\ req[p].date = startOfHour(req[p].date))
        => ~(pc[p] = "notify" /\ pc[q] = "notify")

\* C3: every stored appointment's date is the start of its hour.
C3_DateIsHourStart ==
    \A i \in Ids : appointments[i].date = startOfHour(appointments[i].date)

\* C4: concurrent cancel requests for one appointment enqueue at most one
\* cancellation mail job for it.
C4_OneJobPerAppointment == \A i \in Ids : Jobs(i) <= 1

\* C5: an appointment is canceled only at an instant strictly earlier than
\* its date minus CancelHours; at exactly that instant the cancel fails.
C5_StrictWindow ==
    \A i \in Ids :
        ~Active(i) =>
            isBefore(appointments[i].canceled_at[1],
                     subHours(appointments[i].date, CancelHours))

\* C6 as stated: a create request is answered PastDateForbidden only when
\* the requested date itself is strictly before now.
C6_RequestedDateCompared ==
    \A p \in Procs :
        (pc[p] = "done" /\ req[p].op = "store" /\ res[p] = "PastDateForbidden")
        => isBefore(req[p].date, now)

\* C6 as amended: a create request that names a provider other than the
\* requester is answered PastDateForbidden exactly when the start of the hour
\* of the requested date is strictly before now.
C6_HourStartCompared ==
    [][\A p \in Procs :
          (Begins(p, "store") /\ isProvider(req'[p].provider_id)
             /\ ~StrictEq(req'[p].userId, req'[p].provider_id))
          => ((res'[p] = "PastDateForbidden")
                <=> isBefore(startOfHour(req'[p].date), now))]_vars

\* C6 witness: a request for a date not before now is answered PastDateForbidden.
C6_Witness ==
    \E p \in Procs :
        /\ pc[p] = "done" /\ req[p].op = "store"
        /\ res[p] = "PastDateForbidden"
        /\ ~isBefore(req[p].date, now)

C8_ClientIsNotProvider ==
    \A i \in Ids : appointments[i].user_id # appointments[i].provider_id

\* C9: a cancel request for an active appointment by anyone but its client is
\* answered NotAuthorized, the appointment's provider included; it writes no
\* appointment and enqueues no job.
C9_OnlyClientCancels ==
    [][\A p \in Procs :
          (Begins(p, "delete") /\ req'[p].id \in Ids
             /\ appointments[req'[p].id].user_id # req'[p].userId)
          => /\ pc'[p] = "done"
             /\ Active(req'[p].id) => res'[p] = "NotAuthorized"
             /\ appointments' = appointments
             /\ queue' = queue]_vars

\* C9 witness: the provider of an active appointment is refused.
C9_Witness ==
    \E p \in Procs :
        /\ pc[p] = "done" /\ req[p].op = "delete" /\ req[p].id \in Ids
        /\ Active(req[p].id)
        /\ appointments[req[p].id].provider_id = req[p].userId
        /\ appointments[req[p].id].user_id # req[p].userId
        /\ res[p] = "NotAuthorized"

\* C10: a cancel request that has persisted its cancellation is answered with
\* success, whether or not the mail job could be enqueued.
C10_DispatchIsolated ==
    \A p \in Procs :
        (pc[p] = "done" /\ req[p].op = "delete" /\ req[p].canceled_at # Null)
        => res[p] = "ok"

\* C11: a create request that ends in a failure has stored no appointment.
C11_NoPartialWrite ==
    \A p \in Procs :
        (pc[p] = "done" /\ req[p].op = "store" /\ res[p] # "ok")
        => req[p].id = 0

\* C12: once an appointment's canceled_at is set, no step clears or rewrites
\* it, and no step removes an appointment.
C12_CanceledOnce ==
    [][/\ Len(appointments') >= Len(appointments)
       /\ \A i \in Ids :
             ~Active(i) => appointments'[i].canceled_at = appointments[i].canceled_at]_vars

\* C13: a create request whose body the schema does not accept is answered
\* MalformedRequest.
C13_MalformedRejected ==
    \A p \in Procs :
        (pc[p] = "done" /\ req[p].op = "store"
           /\ ~schemaIsValid(req[p].provider_id, req[p].date))
        => res[p] = "MalformedRequest"

\* The step in which NotificationController answers a request of kind op.
NotifAnswers(op) == nlast' # nlast /\ nlast'.op = op

\* C14: markRead always succeeds; on an id that names no notification it
\* changes nothing; on an existing id it sets read of that notification and
\* nothing else, and applying it again changes nothing.
C14_MarkReadIdempotent ==
    [][NotifAnswers("update") =>
         LET id == nlast'.id IN
         /\ nlast'.result = "ok"
         /\ Len(notifications') = Len(notifications)
         /\ id \notin 1..Len(notifications) => notifications' = notifications
         /\ \A k \in 1..Len(notifications) :
               /\ notifications'[k].user = notifications[k].user
               /\ notifications'[k].content = notifications[k].content
               /\ notifications'[k].read = (notifications[k].read \/ k = id)
         /\ MarkRead(notifications', id) = notifications']_vars

\* C15: index answers a non-provider NotAuthorized with no notification; it
\* answers a provider the newest notifications addressed to it, at most
\* ListLimit of them, newest first; it changes no state.
C15_ListOnlyForProvider ==
    [][NotifAnswers("index") =>
         LET u == nlast'.userId
             list == nlast'.list
             mine == {k \in 1..Len(notifications) : notifications[k].user = u}
             listed == {list[i] : i \in 1..Len(list)}
         IN
         /\ notifications' = notifications /\ appointments' = appointments
         /\ users' = users /\ queue' = queue
         /\ ~users[u].provider => nlast'.result = "NotAuthorized" /\ list = <<>>
         /\ users[u].provider =>
               /\ nlast'.result = "ok"
               /\ Len(list) <= ListLimit
               /\ listed \subseteq mine
               /\ \A i, j \in 1..Len(list) : i < j => list[i] > list[j]
               /\ \A k \in mine \ listed :
                     Len(list) = ListLimit /\ \A l \in listed : k < l]_vars

\* C15 witness: a provider with more than ListLimit notifications gets
\* ListLimit of them while the collection holds another user's notification.
C15_Witness ==
    /\ nlast.op = "index" /\ nlast.result = "ok"
    /\ Len(nlast.list) = ListLimit
    /\ Cardinality(Find(notifications, nlast.userId)) > ListLimit
    /\ \E k \in 1..Len(notifications) : notifications[k].user # nlast.userId

\* C16: the first failing check of a cancel request decides its answer, in
\* the order not found, already canceled, not authorized, too late.
C16_FirstFailingCheckDecides ==
    [][\A p \in Procs : Begins(p, "delete") =>
          LET id == req'[p].id
              u == req'[p].userId
          IN  IF id \notin Ids THEN res'[p] = "BookingNotFound"
              ELSE IF ~Active(id) THEN res'[p] = "AlreadyCanceled"
              ELSE IF appointments[id].user_id # u THEN res'[p] = "NotAuthorized"
              ELSE IF subHours(appointments[id].date, CancelHours) < now
                   THEN res'[p] = "TooLateToCancel"
              ELSE TRUE]_vars

\* C16 witness: a cancel request by another user than the client, inside the
\* window, on a canceled appointment is answered AlreadyCanceled.
C16_Witness ==
    \E p \in Procs :
        /\ pc[p] = "done" /\ req[p].op = "delete" /\ req[p].id \in Ids
        /\ ~Active(req[p].id)
        /\ appointments[req[p].id].user_id # req[p].userId
        /\ subHours(appointments[req[p].id].date, CancelHours) < now
        /\ res[p] = "AlreadyCanceled"

\* C17: the notifications change only by one notification appended in the
\* step that ends a create request with success, after its appointment is
\* stored, addressed to that appointment's provider; every create request
\* that ends with success has appended one.
C17_OneNotificationAfterCreate ==
    [][/\ notifications' # notifications =>
            \E p \in Procs :
               /\ req[p].op = "store" /\ pc[p] # "done"
               /\ pc'[p] = "done" /\ res'[p] = "ok"
               /\ req[p].id \in Ids
               /\ appointments[req[p].id].user_id = req[p].userId
               /\ Len(notifications') = Len(notifications) + 1
               /\ SubSeq(notifications', 1, Len(notifications)) = notifications
               /\ notifications'[Len(notifications')].user
                     = appointments[req[p].id].provider_id
       /\ \A p \in Procs :
            (req'[p].op = "store" /\ pc[p] # "done" /\ pc'[p] = "done")
            => IF res'[p] = "ok"
               THEN Len(notifications') = Len(notifications) + 1
               ELSE notifications' = notifications]_vars

\* C17 witness: two create requests have succeeded; each stored appointment
\* has its notification, addressed to its provider.
C17_Witness ==
    /\ \E p \in Procs : pc[p] = "done" /\ req[p].op = "store" /\ res[p] = "ok"
    /\ Len(appointments) = MaxAppointments
    /\ Len(notifications) = Len(appointments)
    /\ \A i \in Ids : /\ notifications[i].user = appointments[i].provider_id
                      /\ notifications[i].content[1] = appointments[i].user_id

\* C18: the queue changes only by a job for an appointment whose canceled_at
\* is already set in storage; a cancel request refused by a check adds none.
C18_JobAfterCancelPersisted ==
    [][/\ queue' # queue =>
            \E p \in Procs :
               /\ req[p].op = "delete" /\ pc[p] # "done"
               /\ req[p].id \in Ids
               /\ queue' = Append(queue, req[p].id)
               /\ ~Active(req[p].id)
               /\ appointments' = appointments
       /\ \A p \in Procs :
            (Begins(p, "delete") /\ pc'[p] = "done") => queue' = queue]_vars

\* C18 witness: a cancel request has succeeded; its job is in the queue and
\* its appointment is canceled in storage.
C18_Witness ==
    \E p \in Procs :
        /\ pc[p] = "done" /\ req[p].op = "delete" /\ res[p] = "ok"
        /\ queue # <<>> /\ queue[Len(queue)] = req[p].id
        /\ appointments[req[p].id].canceled_at = req[p].canceled_at
        /\ ~Active(req[p].id)

\* Provider P has no active appointment whose date falls in hour H.
SlotFree(P, H) ==
    \A i \in Ids :
        (appointments[i].provider_id = P /\ startOfHour(appointments[i].date) = H)
        => ~Active(i)

\* A create request by a client other than the provider, for a provider, at
\* a date whose hour is not past.
Eligible(r, t) ==
    /\ r.provider_id \in ProviderIds /\ isProvider(r.provider_id)
    /\ ToInt(r.provider_id) # r.userId
    /\ r.date # NaD /\ startOfHour(r.date) >= t

\* C19: an eligible create request for provider P at hour H passes the checks;
\* when P has no active appointment in H, canceled ones or none, the lookup
\* lets it pass, its appointment is stored active, and it ends with success
\* unless the write of the notification rejects.
C19_CancellationFreesSlot ==
    [][\A p \in Procs :
          /\ (Begins(p, "store") /\ Eligible(req'[p], now)) => pc'[p] = "findOne"
          /\ (pc[p] = "findOne" /\ pc'[p] # "findOne" /\ req[p].date # NaD
                /\ SlotFree(ToInt(req[p].provider_id), startOfHour(req[p].date)))
             => pc'[p] = "create"
          /\ (pc[p] = "create" /\ pc'[p] # "create")
             => /\ pc'[p] = "notify"
                /\ Len(appointments') = Len(appointments) + 1
                /\ appointments'[req'[p].id].provider_id = ToInt(req[p].provider_id)
                /\ appointments'[req'[p].id].user_id = req[p].userId
                /\ appointments'[req'[p].id].canceled_at = Null
          /\ (pc[p] = "notify" /\ pc'[p] # "notify")
             => pc'[p] = "done" /\ res'[p] \in {"ok", "Fault"}]_vars

\* C19 witness: a create request has succeeded for the provider and the very
\* date of an earlier appointment that is canceled.
C19_Witness ==
    \E p \in Procs :
        /\ pc[p] = "done" /\ req[p].op = "store" /\ res[p] = "ok"
        /\ Eligible(req[p], now)
        /\ req[p].id \in Ids /\ Active(req[p].id)
        /\ \E i \in Ids :
              /\ i < req[p].id /\ ~Active(i)
              /\ appointments[i].provider_id = appointments[req[p].id].provider_id
              /\ appointments[i].date = startOfHour(req[p].date)
        /\ \A j \in Ids :
              (j # req[p].id /\ appointments[j].provider_id = appointments[req[p].id].provider_id)
              => ~Active(j)

\* C20: with user requests handled one at a time, no two stored users have
\* the same email; a registration or an update that passes the schema and
\* names an email held by another user is answered 'User with this email
\* already exists', and a request so answered changes no user.
C20_EmailUnique ==
    [][/\ \A i, j \in 1..Len(users') : i # j => users'[i].email # users'[j].email
       /\ (ulast' # ulast /\ ulast'.valid
             /\ \E u \in 1..Len(users) :
                   u # ulast'.userId /\ users[u].email = ulast'.email)
          => ulast'.result = "EmailTaken"
       /\ ulast'.result = "EmailTaken" => users' = users]_vars

\* C20 witness: after a registration and a successful change of email, an
\* update to an email held by another user has been refused.
C20_Witness ==
    /\ ulast.op = "update" /\ ulast.result = "EmailTaken"
    /\ \E u \in 1..Len(users) : u # ulast.userId /\ users[u].email = ulast.email
    /\ Len(users) > Len(InitialUsers)
    /\ \E u \in 1..Len(InitialUsers) : users[u].email # InitialUsers[u].email

====
